---- MODULE Spec2Model ----
(***************************************************************************)
(* Model of dip/02_datasets_visualization.ipynb: a notebook that loads a   *)
(* labeled 3D volume, views it slice by slice, computes a max-intensity    *)
(* projection, extracts the mesh of one labeled cell, measures its surface *)
(* area with and without the anisotropic spacing, renders it and finally   *)
(* views further images through ITK.                                       *)
(*                                                                         *)
(* Numbers.  The notebook computes in floating point.  The model computes  *)
(* in exact arithmetic: a spacing is a reduced fraction <<num, den>>, a    *)
(* vertex array is a list of integer triples over one common denominator   *)
(* and an area is a sum of c * sqrt(s), s squarefree, over a denominator.  *)
(* Square roots of distinct squarefree numbers are linearly independent    *)
(* over the rationals, so two areas are equal exactly when their           *)
(* coefficients agree.  Rounding is not part of the model.                 *)
(***************************************************************************)
EXTENDS Integers, Sequences, FiniteSets, TLC

VARIABLES
    pc,     \* the notebook cell (or loop position) that runs next
    heap,   \* every object created so far, in creation order
    env,    \* the notebook's names: name -> index into heap (0: unbound)
    val,    \* the notebook's scalar names (selected_cell, n, the areas)
    z,      \* the slice viewer's slider value (-1: no slider yet)
    shown,  \* what the slice viewer's last call displayed
    pf      \* input and results of the pure-function specifications

vars == <<pc, heap, env, val, z, shown, pf>>

----------------------------------------------------------------------------
(* Bounds of the model *)

MaxDepth == 3       \* planes of a loaded labeled volume (short volumes)
MaxVerts == 4       \* vertices of a mesh returned by the extraction
MaxFaces == 2       \* faces of a mesh given to the pure area function
MaxK == 3           \* numerator and denominator of the scale factor k
MaxSpacing == 5     \* numerator range of a raw spacing component

(* Program constants *)

SliderMin == 0
SliderMax == 60
SliderStep == 1
SliderInit == 5
SelectedCell == 3
RefAxis == 2        \* 0-based index, as in rescaled_spacing[2]

----------------------------------------------------------------------------
(* Exact arithmetic *)

Abs(n) == IF n < 0 THEN -n ELSE n

RECURSIVE GCD(_, _)
GCD(a, b) == IF b = 0 THEN a ELSE GCD(b, a % b)

LCM(a, b) == (a * b) \div GCD(a, b)

\* The fraction n/d (d > 0) in lowest terms.
Rat(n, d) == LET g == GCD(n, d) IN <<n \div g, d \div g>>

RatMul(a, b) == Rat(a[1] * b[1], a[2] * b[2])

\* a / b for b # 0.
RatDiv(a, b) == Rat(a[1] * b[2], a[2] * b[1])

\* The largest t <= from with t * t dividing m (m > 0, from >= 1).
SquarePart(m, from) ==
    LET S == {t \in 1..from : t * t <= m /\ m % (t * t) = 0}
    IN  IF S = {} THEN 1 ELSE CHOOSE t \in S : \A u \in S : u <= t

\* Add c * sqrt(s) to a sum of such terms, kept as a set of <<s, c>>, c > 0,
\* one pair per radicand.
AddTerm(terms, s, c) ==
    IF c = 0 THEN terms
    ELSE IF \E p \in terms : p[1] = s
         THEN LET old == CHOOSE p \in terms : p[1] = s
              IN  (terms \ {old}) \cup {<<s, old[2] + c>>}
         ELSE terms \cup {<<s, c>>}

\* Variant of AddSqrt without the square root (the ** 0.5 left out).
AddSquared(terms, m, hi) == AddTerm(terms, 1, m)

\* sum + sqrt(m), for an integer m >= 0 whose square root is at most hi.
AddSqrt(terms, m, hi) ==
    IF m = 0 THEN terms
    ELSE LET t == SquarePart(m, hi) IN AddTerm(terms, m \div (t * t), t)

ScaleTerms(terms, k) == {<<p[1], p[2] * k>> : p \in terms}

\* Equality of two areas [terms, den].
AreaEq(a, b) == ScaleTerms(a.terms, b.den) = ScaleTerms(b.terms, a.den)

\* k * a for a fraction k.
AreaTimes(a, k) == [terms |-> ScaleTerms(a.terms, k[1]), den |-> a.den * k[2]]

AreaOfNumber(n) == [terms |-> IF n = 0 THEN {} ELSE {<<1, n>>}, den |-> 1]

----------------------------------------------------------------------------
(* skimage.measure.mesh_surface_area(verts, faces):                        *)
(*     actual_verts = verts[faces]                                         *)
(*     a = actual_verts[:, 0, :] - actual_verts[:, 1, :]                   *)
(*     b = actual_verts[:, 0, :] - actual_verts[:, 2, :]                   *)
(*     return ((np.cross(a, b) ** 2).sum(axis=1) ** 0.5).sum() / 2.        *)
(* A vertex array is [den, pts]: vertex i (0-based) is pts[i + 1] / den.   *)

Sub3(u, v) == <<u[1] - v[1], u[2] - v[2], u[3] - v[3]>>

Cross(a, b) ==
    <<a[2] * b[3] - a[3] * b[2], a[3] * b[1] - a[1] * b[3], a[1] * b[2] - a[2] * b[1]>>

\* verts[faces]: the three corners of every face, in face order.
Lookup(verts, faces) ==
    [i \in 1..Len(faces) |->
        <<verts.pts[faces[i][1] + 1], verts.pts[faces[i][2] + 1], verts.pts[faces[i][3] + 1]>>]

\* np.cross(a, b) of one triangle.
TriCross(tri) == Cross(Sub3(tri[1], tri[2]), Sub3(tri[1], tri[3]))

\* The sum over the first n triangles of |cross|, added in face order.
RECURSIVE SumNorms(_, _)
SumNorms(tris, n) ==
    IF n = 0 THEN {}
    ELSE LET c == TriCross(tris[n])
         IN  AddSqrt(SumNorms(tris, n - 1),
                     c[1] * c[1] + c[2] * c[2] + c[3] * c[3],
                     Abs(c[1]) + Abs(c[2]) + Abs(c[3]))

\* Variant of SumAll that leaves the last face out.
SumAllButLast(tris, n) == SumNorms(tris, IF n > 1 THEN n - 1 ELSE n)

\* (...).sum() over all faces.
SumAll(tris, n) == SumNorms(tris, n)

\* Variant of mesh_surface_area without the final division by 2.
mesh_surface_area_no_half(verts, faces) ==
    [terms |-> SumAll(Lookup(verts, faces), Len(faces)),
     den   |-> verts.den * verts.den]

mesh_surface_area(verts, faces) ==
    [terms |-> SumAll(Lookup(verts, faces), Len(faces)),
     den   |-> 2 * verts.den * verts.den]

----------------------------------------------------------------------------
(* Spacing normalization, cell "The microscope reports the following       *)
(* spacing": rescaled_spacing = original_spacing * [1, 4, 4] and           *)
(* spacing = rescaled_spacing / rescaled_spacing[2].                       *)

\* np.array([0.2900000, 0.0650000, 0.0650000]), in (plane, row, column) order.
OriginalSpacing == <<Rat(29, 100), Rat(65, 1000), Rat(65, 1000)>>

DownsampleFactors == <<Rat(1, 1), Rat(4, 1), Rat(4, 1)>>

RescaleSpacing(os) == [i \in 1..3 |-> RatMul(os[i], DownsampleFactors[i])]

\* Variant of NormalizeSpacing that divides by component 0.
NormalizeByFirst(rs) == [i \in 1..3 |-> RatDiv(rs[i], rs[1])]

NormalizeSpacing(rs) == [i \in 1..3 |-> RatDiv(rs[i], rs[RefAxis + 1])]

----------------------------------------------------------------------------
(* Objects.  Every array, list, mesh array and image the notebook creates  *)
(* is one entry of heap; a name of the notebook holds the entry's index.   *)
(* Rebinding a name changes env; changing an object in place changes heap. *)

NdArray(d) == [kind |-> "ndarray", data |-> d]

\* A numpy view: it shares the memory of heap[base].
View(base, sel) == [kind |-> "view", base |-> base, sel |-> sel]

ItkImage(d, sp) == [kind |-> "itk_image", data |-> d, spacing |-> sp]

\* volume[::2, ::2, ::2]
Stride2(v) ==
    [p \in 1..((Len(v) + 1) \div 2) |->
        [r \in 1..((Len(v[1]) + 1) \div 2) |->
            [c \in 1..((Len(v[1][1]) + 1) \div 2) |-> v[2 * p - 1][2 * r - 1][2 * c - 1]]]]

\* a.transpose(1, 2, 0): result[r][c][p] = a[p][r][c]
Transpose120(a) ==
    [r \in 1..Len(a[1]) |-> [c \in 1..Len(a[1][1]) |-> [p \in 1..Len(a) |-> a[p][r][c]]]]

\* The values an object holds; a view reads through to its base.
RECURSIVE Data(_, _)
Data(h, r) ==
    LET o == h[r]
    IN  IF o.kind # "view" THEN o.data
        ELSE CASE o.sel[1] = "plane" -> Data(h, o.base)[o.sel[2] + 1]
               [] o.sel[1] = "stride2" -> Stride2(Data(h, o.base))
               [] OTHER -> Transpose120(Data(h, o.base))

NoArea == [terms |-> {}, den |-> 0]

----------------------------------------------------------------------------
(* Input files *)

PlaneA == <<<<1, 2>>, <<4, 6>>>>
PlaneB == <<<<0, 3>>, <<5, 1>>>>
PlaneC == <<<<0, 0>>, <<2, 0>>>>

PlaneChoices == {PlaneA, PlaneB, PlaneC}

ShortVolumes == UNION {[1..d -> PlaneChoices] : d \in 1..MaxDepth}

\* Two stacks about as deep as the slider is long.
DeepVolumes ==
    {[p \in 1..d |-> IF p % 2 = 1 THEN PlaneA ELSE PlaneB] : d \in {SliderMax, SliderMax + 1}}

\* data/cells_interior_labels.tiff
LabelVolumes == ShortVolumes \cup DeepVolumes

\* data/cells.tif
OrigVolumes == {<<PlaneA, PlaneB>>}

\* data/bead_pack_artifacts_small.tif
BeadVolumes == {<<PlaneA, PlaneB>>, <<PlaneB, PlaneC, PlaneA>>}

\* data/mriBrain.tif and the spacing the file records
MriVolumes == {<<PlaneC, PlaneA>>}
MriSpacings == {<<1, 1, 1>>, <<1, 1, 5>>}

----------------------------------------------------------------------------
(* The notebook, cell by cell *)

Unbound ==
    [orig |-> 0, equalized |-> 0, relabeled |-> 0, IM_MAX |-> 0, image |-> 0,
     regionprops |-> 0, volume |-> 0, verts_px |-> 0, faces_px |-> 0,
     original_spacing |-> 0, rescaled_spacing |-> 0, spacing |-> 0,
     verts |-> 0, faces |-> 0, mesh |-> 0, image_np |-> 0, image_itk |-> 0]

Unset ==
    [selected_cell |-> -1, n |-> -1,
     surface_area_pixels |-> NoArea, surface_area_actual |-> NoArea,
     xlim |-> <<>>, ylim |-> <<>>, zlim |-> <<>>]

Init ==
    /\ pc = "c_read_orig"
    /\ heap = <<>>
    /\ env = Unbound
    /\ val = Unset
    /\ z = -1
    /\ shown = "nothing"
    /\ pf = "unused"

Relabeled == Data(heap, env.relabeled)

\* orig = io.imread(input_filename); equalized = exposure.equalize_hist(orig)
ReadOrigCell ==
    /\ pc = "c_read_orig"
    /\ pc' = "c_read_labels"
    /\ \E o \in OrigVolumes :
          /\ heap' = heap \o <<NdArray(o), NdArray(<<"equalize_hist", o>>)>>
          /\ env' = [env EXCEPT !.orig = Len(heap) + 1, !.equalized = Len(heap) + 2]
    /\ UNCHANGED <<val, z, shown, pf>>

\* relabeled = tifffile.imread(inputfile)
ReadLabelsCell ==
    /\ pc = "c_read_labels"
    /\ pc' = "c_slicer"
    /\ \E v \in LabelVolumes :
          /\ heap' = Append(heap, NdArray(v))
          /\ env' = [env EXCEPT !.relabeled = Len(heap) + 1]
    /\ UNCHANGED <<val, z, shown, pf>>

\* def slicer(z): plt.imshow(relabeled[z,:,:], cmap='gray')
slicer(zz) ==
    IF zz < Len(Relabeled)
    THEN [call |-> "imshow", image |-> Relabeled[zz + 1]]
    ELSE [call |-> "IndexError", image |-> <<>>]

\* widgets.IntSlider(min=0, max=60, step=1, value=5)
SliderValues == {v \in SliderMin..SliderMax : (v - SliderMin) % SliderStep = 0}

\* interact(slicer, z=...): builds the slider and calls slicer once with its
\* value; an exception of the callback is shown, not raised.
SlicerCell ==
    /\ pc = "c_slicer"
    /\ pc' = "c_maxproj"
    /\ z' = SliderInit
    /\ shown' = slicer(SliderInit)
    /\ UNCHANGED <<heap, env, val, pf>>

\* The user moves the slider one step (a drag or a jump is a run of steps as
\* far as the value reached goes): the widget calls slicer with the new value.
SliderMove ==
    /\ z # -1
    /\ \E v \in SliderValues \cap {z - SliderStep, z + SliderStep} :
          /\ z' = v
          /\ shown' = slicer(v)
    /\ UNCHANGED <<pc, heap, env, val, pf>>

Max(a, b) == IF a >= b THEN a ELSE b

\* Variant of Maximum: np.minimum.
Minimum(a, b) ==
    [r \in 1..Len(a) |-> [c \in 1..Len(a[r]) |-> IF a[r][c] <= b[r][c] THEN a[r][c] ELSE b[r][c]]]

\* np.maximum(a, b) of two planes
Maximum(a, b) ==
    [r \in 1..Len(a) |-> [c \in 1..Len(a[r]) |-> Max(a[r][c], b[r][c])]]

\* IM_MAX = relabeled[0]
MaxProjInit ==
    /\ pc = "c_maxproj"
    /\ pc' = "maxproj_loop"
    /\ heap' = Append(heap, View(env.relabeled, <<"plane", 0>>))
    /\ env' = [env EXCEPT !.IM_MAX = Len(heap) + 1]
    /\ UNCHANGED <<val, z, shown, pf>>

\* Variant of MaxProjStep: np.maximum(IM_MAX, image, out=IM_MAX), which writes
\* the maximum into the memory IM_MAX shares with relabeled[0].
MaxProjStepInPlace ==
    /\ pc = "maxproj_loop"
    /\ val.n + 1 < Len(Relabeled)
    /\ LET slice == View(env.relabeled, <<"plane", val.n + 1>>)
           h1 == Append(heap, slice)
       IN  heap' = [h1 EXCEPT ![env.relabeled].data[1] =
                                  Maximum(Data(heap, env.IM_MAX), Data(h1, Len(h1)))]
    /\ env' = [env EXCEPT !.image = Len(heap) + 1]
    /\ val' = [val EXCEPT !.n = val.n + 1]
    /\ UNCHANGED <<pc, z, shown, pf>>

\* for n, image in enumerate(relabeled): IM_MAX = np.maximum(IM_MAX, image)
MaxProjStep ==
    /\ pc = "maxproj_loop"
    /\ val.n + 1 < Len(Relabeled)
    /\ LET slice == View(env.relabeled, <<"plane", val.n + 1>>)
           h1 == Append(heap, slice)
       IN  /\ heap' = Append(h1, NdArray(Maximum(Data(heap, env.IM_MAX), Data(h1, Len(h1)))))
           /\ env' = [env EXCEPT !.image = Len(heap) + 1, !.IM_MAX = Len(heap) + 2]
    /\ val' = [val EXCEPT !.n = val.n + 1]
    /\ UNCHANGED <<pc, z, shown, pf>>

\* the loop is exhausted; plt.imshow(IM_MAX)
MaxProjShow ==
    /\ pc = "maxproj_loop"
    /\ val.n + 1 = Len(Relabeled)
    /\ pc' = "c_mesh_px"
    /\ UNCHANGED <<heap, env, val, z, shown, pf>>

\* measure.regionprops(label_image): one region per label present, label 0
\* (background) left out, in increasing order of label.
RegionLabels(v) ==
    {v[p][r][c] : p \in 1..Len(v), r \in 1..Len(v[1]), c \in 1..Len(v[1][1])} \ {0}

RECURSIVE Sorted(_)
Sorted(S) ==
    IF S = {} THEN <<>>
    ELSE LET m == CHOOSE x \in S : \A y \in S : x <= y
         IN  <<m>> \o Sorted(S \ {m})

SetMin(S) == CHOOSE x \in S : \A y \in S : x <= y
SetMax(S) == CHOOSE x \in S : \A y \in S : x >= y

\* region.bbox: (min_pln, min_row, min_col, max_pln, max_row, max_col), the
\* maxima one past the last index.
BBox(v, l) ==
    LET at == {q \in (1..Len(v)) \X (1..Len(v[1])) \X (1..Len(v[1][1])) :
                  v[q[1]][q[2]][q[3]] = l}
        ax(i) == {q[i] - 1 : q \in at}
    IN  <<SetMin(ax(1)), SetMin(ax(2)), SetMin(ax(3)),
          SetMax(ax(1)) + 1, SetMax(ax(2)) + 1, SetMax(ax(3)) + 1>>

regionprops(v) ==
    LET ls == Sorted(RegionLabels(v))
    IN  [i \in 1..Len(ls) |-> [label |-> ls[i], bbox |-> BBox(v, ls[i])]]

\* Variant of SelectedLabel that counts the regions from 1.
SelectedLabelOneBased(rp, sel) == rp[sel].label

\* regionprops[selected_cell].label
SelectedLabel(rp, sel) == rp[sel + 1].label

\* relabeled == label
EqualsLabel(v, l) ==
    [p \in 1..Len(v) |-> [r \in 1..Len(v[1]) |-> [c \in 1..Len(v[1][1]) |-> v[p][r][c] = l]]]

(* measure.marching_cubes_lewiner(volume, level, spacing): an external     *)
(* procedure.  Modelled by its contract: it returns vertices on the grid   *)
(* of the array it is given, coordinate i of a vertex being the grid       *)
(* coordinate along array axis i times spacing[i], and triangles that      *)
(* index those vertices from 0.  Which surface it returns is left open;    *)
(* the same array yields the same surface whatever the spacing.            *)

Min(a, b) == IF a <= b THEN a ELSE b

\* Grid point i (0-based, last axis fastest) of an array of shape sh.
GridPoint(i, sh) == <<i \div (sh[2] * sh[3]), (i \div sh[3]) % sh[2], i % sh[3]>>

Shape(a) == <<Len(a), Len(a[1]), Len(a[1][1])>>

ExtractVerts(n, sh, sp) ==
    LET d == LCM(sp[1][2], LCM(sp[2][2], sp[3][2]))
    IN  [den |-> d,
         pts |-> [i \in 1..n |->
                     LET g == GridPoint(i - 1, sh)
                     IN  [a \in 1..3 |-> g[a] * sp[a][1] * (d \div sp[a][2])]]]

\* Variant of ExtractFaces that numbers the vertices from 1.
ExtractFacesFromOne(n) == [i \in 1..(n - 2) |-> <<1, i + 1, i + 2>>]

\* A fan of n - 2 triangles on vertices 0..n-1.
ExtractFaces(n) == [i \in 1..(n - 2) |-> <<0, i, i + 1>>]

MarchingCubes(a, sp) ==
    {[verts |-> ExtractVerts(n, Shape(a), sp), faces |-> ExtractFaces(n)] :
        n \in 3..Min(MaxVerts, Len(a) * Len(a[1]) * Len(a[1][1]))}

UnitSpacing == <<Rat(1, 1), Rat(1, 1), Rat(1, 1)>>

\* selected_cell = 3; regionprops = ...; volume = (relabeled == regionprops[
\* selected_cell].label).transpose(1, 2, 0); verts_px, faces_px, _, _ = ...
MeshPxCell ==
    /\ pc = "c_mesh_px"
    /\ LET rp == regionprops(Relabeled)
       IN  /\ SelectedCell < Len(rp)
           /\ LET mask == EqualsLabel(Relabeled, SelectedLabel(rp, SelectedCell))
                  b == Len(heap)
              IN  \E m \in MarchingCubes(Transpose120(mask), UnitSpacing) :
                     /\ heap' = heap \o <<NdArray(Relabeled), [kind |-> "list", data |-> rp],
                                          NdArray(mask), View(b + 3, <<"transpose120">>),
                                          NdArray(m.verts), NdArray(m.faces)>>
                     /\ env' = [env EXCEPT !.regionprops = b + 2, !.volume = b + 4,
                                           !.verts_px = b + 5, !.faces_px = b + 6]
    /\ val' = [val EXCEPT !.selected_cell = SelectedCell]
    /\ pc' = "c_area_px"
    /\ UNCHANGED <<z, shown, pf>>

\* regionprops[selected_cell] raises IndexError: fewer regions than
\* selected_cell + 1.  The run stops at this cell.
MeshPxCellRaises ==
    /\ pc = "c_mesh_px"
    /\ LET rp == regionprops(Relabeled)
       IN  /\ SelectedCell >= Len(rp)
           /\ heap' = heap \o <<NdArray(Relabeled), [kind |-> "list", data |-> rp]>>
           /\ env' = [env EXCEPT !.regionprops = Len(heap) + 2]
    /\ val' = [val EXCEPT !.selected_cell = SelectedCell]
    /\ pc' = "raised"
    /\ UNCHANGED <<z, shown, pf>>

\* measure.mesh_surface_area(verts_px, faces_px)
AreaPxArgs == <<Data(heap, env.verts_px), Data(heap, env.faces_px)>>

\* surface_area_pixels = measure.mesh_surface_area(verts_px, faces_px)
AreaPxCell ==
    /\ pc = "c_area_px"
    /\ pc' = "c_spacing"
    /\ val' = [val EXCEPT !.surface_area_pixels = mesh_surface_area(AreaPxArgs[1], AreaPxArgs[2])]
    /\ UNCHANGED <<heap, env, z, shown, pf>>

\* original_spacing = ...; rescaled_spacing = ...; spacing = ...
SpacingCell ==
    /\ pc = "c_spacing"
    /\ pc' = "c_mesh"
    /\ LET rs == RescaleSpacing(OriginalSpacing)
       IN  heap' = heap \o <<NdArray(OriginalSpacing), NdArray(rs), NdArray(NormalizeSpacing(rs))>>
    /\ env' = [env EXCEPT !.original_spacing = Len(heap) + 1,
                          !.rescaled_spacing = Len(heap) + 2,
                          !.spacing = Len(heap) + 3]
    /\ UNCHANGED <<val, z, shown, pf>>

\* The spacing argument of the second extraction: tuple(spacing).
MeshSpacingArg == Data(heap, env.spacing)

\* verts, faces, _, _ = measure.marching_cubes_lewiner(volume, level=0,
\* spacing=tuple(spacing)); surface_area_actual = mesh_surface_area(verts, faces)
MeshCell ==
    /\ pc = "c_mesh"
    /\ pc' = "c_plot2d"
    /\ \E m \in MarchingCubes(Data(heap, env.volume), MeshSpacingArg) :
          /\ Len(m.verts.pts) = Len(Data(heap, env.verts_px).pts)
          /\ heap' = heap \o <<NdArray(m.verts), NdArray(m.faces)>>
          /\ val' = [val EXCEPT !.surface_area_actual = mesh_surface_area(m.verts, m.faces)]
    /\ env' = [env EXCEPT !.verts = Len(heap) + 1, !.faces = Len(heap) + 2]
    /\ UNCHANGED <<z, shown, pf>>

\* plt.plot(verts[:,0], verts[:,1], 'b.'): reads verts, draws.
Plot2DCell ==
    /\ pc = "c_plot2d"
    /\ pc' = "c_scatter3d"
    /\ UNCHANGED <<heap, env, val, z, shown, pf>>

\* ax.scatter(verts[:,0], verts[:,1], verts[:,2]): reads verts, draws.
Scatter3DCell ==
    /\ pc = "c_scatter3d"
    /\ pc' = "c_poly"
    /\ UNCHANGED <<heap, env, val, z, shown, pf>>

\* Poly3DCollection(verts_px[faces_px])
PolyArgs == <<Data(heap, env.verts_px), Data(heap, env.faces_px)>>

\* selected_cell = 3; mesh = Poly3DCollection(verts_px[faces_px]);
\* mesh.set_edgecolor('black'); the axis limits are the region's bbox.
PolyCell ==
    /\ pc = "c_poly"
    /\ pc' = "c_itk_view"
    /\ heap' = Append(heap, [kind |-> "poly", data |-> Lookup(PolyArgs[1], PolyArgs[2]),
                             edgecolor |-> "black"])
    /\ env' = [env EXCEPT !.mesh = Len(heap) + 1]
    /\ LET bb == Data(heap, env.regionprops)[SelectedCell + 1].bbox
       IN  val' = [val EXCEPT !.selected_cell = SelectedCell,
                              !.xlim = <<bb[2], bb[5]>>,
                              !.ylim = <<bb[3], bb[6]>>,
                              !.zlim = <<bb[1], bb[4]>>]
    /\ UNCHANGED <<z, shown, pf>>

\* image = itk.GetImageFromArray(relabeled.astype(np.int16)); view(image, ...)
ItkViewCell ==
    /\ pc = "c_itk_view"
    /\ pc' = "c_itk_read"
    /\ heap' = heap \o <<NdArray(Relabeled), ItkImage(Relabeled, <<1, 1, 1>>)>>
    /\ env' = [env EXCEPT !.image = Len(heap) + 2]
    /\ UNCHANGED <<val, z, shown, pf>>

\* image = itk.imread("data/bead_pack_artifacts_small.tif"); view(image, ...)
ItkReadCell ==
    /\ pc = "c_itk_read"
    /\ pc' = "c_to_numpy"
    /\ \E v \in BeadVolumes : heap' = Append(heap, ItkImage(v, <<1, 1, 1>>))
    /\ env' = [env EXCEPT !.image = Len(heap) + 1]
    /\ UNCHANGED <<val, z, shown, pf>>

\* image_np = itk.GetArrayFromImage(image): a copy of the voxels
ToNumpyCell ==
    /\ pc = "c_to_numpy"
    /\ pc' = "c_reduce"
    /\ heap' = Append(heap, NdArray(heap[env.image].data))
    /\ env' = [env EXCEPT !.image_np = Len(heap) + 1]
    /\ UNCHANGED <<val, z, shown, pf>>

Values(v) == {v[p][r][c] : p \in 1..Len(v), r \in 1..Len(v[1]), c \in 1..Len(v[1][1])}

\* a > t, then .astype(np.int16)
Above(v, t) ==
    [p \in 1..Len(v) |-> [r \in 1..Len(v[1]) |->
        [c \in 1..Len(v[1][1]) |-> IF v[p][r][c] > t THEN 1 ELSE 0]]]

\* image_np = image_np[::2,::2,::2]; image_np = image_np > threshold_isodata(
\* image_np); image_itk = itk.GetImageFromArray(image_np.astype(np.int16)).
\* The threshold is some value of the array.
ReduceCell ==
    /\ pc = "c_reduce"
    /\ pc' = "c_mri_read"
    /\ LET h1 == Append(heap, View(env.image_np, <<"stride2">>))
           small == Data(h1, Len(h1))
       IN  \E t \in Values(small) :
              heap' = h1 \o <<NdArray([p \in 1..Len(small) |-> [r \in 1..Len(small[1]) |->
                                  [c \in 1..Len(small[1][1]) |-> small[p][r][c] > t]]]),
                              NdArray(Above(small, t)),
                              ItkImage(Above(small, t), <<1, 1, 1>>)>>
    /\ env' = [env EXCEPT !.image_np = Len(heap) + 2, !.image_itk = Len(heap) + 4]
    /\ UNCHANGED <<val, z, shown, pf>>

\* image = itk.imread("data/mriBrain.tif"); view(image, ...)
MriReadCell ==
    /\ pc = "c_mri_read"
    /\ pc' = "c_set_spacing"
    /\ \E v \in MriVolumes, sp \in MriSpacings : heap' = Append(heap, ItkImage(v, sp))
    /\ env' = [env EXCEPT !.image = Len(heap) + 1]
    /\ UNCHANGED <<val, z, shown, pf>>

\* The argument of image.SetSpacing
NewSpacing == <<1, 1, 5>>

\* print(image.GetSpacing()); image.SetSpacing([1,1,5]); view(image, ...):
\* the image object is changed in place.
SetSpacingCell ==
    /\ pc = "c_set_spacing"
    /\ pc' = "done"
    /\ heap' = [heap EXCEPT ![env.image].spacing = NewSpacing]
    /\ UNCHANGED <<env, val, z, shown, pf>>

----------------------------------------------------------------------------
(* Inputs of the pure-function specifications *)

\* Corner i (0-based) of the unit cube: i = 4x + 2y + z.
Corner(i) == <<i \div 4, (i \div 2) % 2, i % 2>>

CubeVerts == [den |-> 1, pts |-> [i \in 1..8 |-> Corner(i - 1)]]

Idx(p) == 4 * p[1] + 2 * p[2] + p[3]

\* The four corners of side s (1..6) of the cube, in cyclic order.
SideCycle(s) ==
    LET a == ((s - 1) \div 2) + 1
        v == (s - 1) % 2
        q == <<<<0, 0>>, <<1, 0>>, <<1, 1>>, <<0, 1>>>>
    IN  [i \in 1..4 |->
            Idx(CASE a = 1 -> <<v, q[i][1], q[i][2]>>
                  [] a = 2 -> <<q[i][1], v, q[i][2]>>
                  [] OTHER -> <<q[i][1], q[i][2], v>>)]

\* The two triangles of side s, split along diagonal d (0 or 1).
SideFaces(s, d) ==
    LET c == SideCycle(s)
    IN  IF d = 0 THEN <<<<c[1], c[2], c[3]>>, <<c[1], c[3], c[4]>>>>
        ELSE <<<<c[2], c[3], c[4]>>, <<c[2], c[4], c[1]>>>>

\* The 12 faces of the cube whose side s is split along diagonal dd[s].
CubeFaces(dd) ==
    SideFaces(1, dd[1]) \o SideFaces(2, dd[2]) \o SideFaces(3, dd[3])
        \o SideFaces(4, dd[4]) \o SideFaces(5, dd[5]) \o SideFaces(6, dd[6])

CubeFaceLists == {CubeFaces(dd) : dd \in [1..6 -> {0, 1}]}

\* Triangles on the cube's corners that contain corner 0, and one degenerate.
FaceChoices ==
    {f \in {<<0, j, k>> : j \in 1..7, k \in 1..7} : f[2] < f[3]} \cup {<<0, 7, 7>>}

FaceLists == UNION {[1..n -> FaceChoices] : n \in 1..MaxFaces}

\* Permutations of 1..n: every swap, every rotation and the reversal (all the
\* permutations when n <= 3).
PermChoices(n) ==
    {[x \in 1..n |-> IF x = i THEN j ELSE IF x = j THEN i ELSE x] : i \in 1..n, j \in 1..n}
        \cup {[x \in 1..n |-> ((x - 1 + r) % n) + 1] : r \in 0..(n - 1)}
        \cup {[x \in 1..n |-> n + 1 - x]}

RawSpacings == {Rat(n, 200) : n \in 1..MaxSpacing} \cup {Rat(29, 100), Rat(65, 1000)}

\* The pipeline's variables while a pure function is exercised on its own.
Idle ==
    /\ heap = <<>>
    /\ env = Unbound
    /\ val = Unset
    /\ z = -1
    /\ shown = "nothing"

----------------------------------------------------------------------------
(* SpecArea: mesh_surface_area on a mesh, on the same mesh with its faces  *)
(* permuted and on the same mesh with its vertices scaled by k = p / q.    *)

InitArea ==
    /\ Idle
    /\ pc = "area_input"
    /\ \E fs \in FaceLists \cup CubeFaceLists :
          pf = [verts |-> CubeVerts, faces |-> fs]

AreaCall ==
    /\ pc = "area_input"
    /\ pc' = "area_done"
    /\ pf' = [verts |-> pf.verts, faces |-> pf.faces,
              area |-> mesh_surface_area(pf.verts, pf.faces)]
    /\ UNCHANGED <<heap, env, val, z, shown>>

AreaPermutedCall ==
    /\ pc = "area_done"
    /\ pc' = "perm_done"
    /\ \E perm \in PermChoices(Len(pf.faces)) :
          LET fp == [i \in 1..Len(pf.faces) |-> pf.faces[perm[i]]]
          IN  pf' = [verts |-> pf.verts, faces |-> pf.faces, area |-> pf.area,
                     faces_perm |-> fp,
                     area_perm |-> mesh_surface_area(pf.verts, fp)]
    /\ UNCHANGED <<heap, env, val, z, shown>>

\* verts * k for k = p / q.
ScaleVerts(verts, p, q) ==
    [den |-> verts.den * q,
     pts |-> [i \in 1..Len(verts.pts) |->
                 <<verts.pts[i][1] * p, verts.pts[i][2] * p, verts.pts[i][3] * p>>]]

AreaScaledCall ==
    /\ pc = "area_done"
    /\ pc' = "scaled_done"
    /\ \E p \in 1..MaxK, q \in 1..MaxK :
          LET vk == ScaleVerts(pf.verts, p, q)
          IN  pf' = [verts |-> pf.verts, faces |-> pf.faces, area |-> pf.area,
                     k |-> <<p, q>>, verts_k |-> vk,
                     area_scaled |-> mesh_surface_area(vk, pf.faces)]
    /\ UNCHANGED <<heap, env, val, z, shown>>

NextArea == AreaCall \/ AreaPermutedCall \/ AreaScaledCall

SpecArea == InitArea /\ [][NextArea]_vars

----------------------------------------------------------------------------
(* SpecSpacing: the two spacing steps on any positive raw spacing.         *)

InitSpacing ==
    /\ Idle
    /\ pc = "spacing_input"
    /\ \E a \in RawSpacings, b \in RawSpacings, c \in RawSpacings :
          pf = [original_spacing |-> <<a, b, c>>]

RescaleStep ==
    /\ pc = "spacing_input"
    /\ pc' = "spacing_rescaled"
    /\ pf' = [original_spacing |-> pf.original_spacing,
              rescaled_spacing |-> RescaleSpacing(pf.original_spacing)]
    /\ UNCHANGED <<heap, env, val, z, shown>>

NormalizeStep ==
    /\ pc = "spacing_rescaled"
    /\ pc' = "spacing_done"
    /\ pf' = [original_spacing |-> pf.original_spacing,
              rescaled_spacing |-> pf.rescaled_spacing,
              spacing |-> NormalizeSpacing(pf.rescaled_spacing)]
    /\ UNCHANGED <<heap, env, val, z, shown>>

NextSpacing == RescaleStep \/ NormalizeStep

SpecSpacing == InitSpacing /\ [][NextSpacing]_vars

----------------------------------------------------------------------------
Next ==
    \/ ReadOrigCell
    \/ ReadLabelsCell
    \/ SlicerCell
    \/ SliderMove
    \/ MaxProjInit
    \/ MaxProjStep
    \/ MaxProjShow
    \/ MeshPxCell
    \/ MeshPxCellRaises
    \/ AreaPxCell
    \/ SpacingCell
    \/ MeshCell
    \/ Plot2DCell
    \/ Scatter3DCell
    \/ PolyCell
    \/ ItkViewCell
    \/ ItkReadCell
    \/ ToNumpyCell
    \/ ReduceCell
    \/ MriReadCell
    \/ SetSpacingCell

Spec == Init /\ [][Next]_vars

----------------------------------------------------------------------------
(* Properties *)

C3_ReferenceIsOne == pc = "spacing_done" => pf.spacing[RefAxis + 1] = <<1, 1>>

\* A spacing whose reference component was not 1 before the division and
\* whose other components are not 1 after it.
C3_Witness ==
    /\ pc = "spacing_done"
    /\ pf.rescaled_spacing[RefAxis + 1] # <<1, 1>>
    /\ pf.spacing[1] # <<1, 1>>
    /\ pf.spacing[2] # <<1, 1>>

\* C4: the unit cube (8 vertices, 12 triangles, two per side, whichever
\* diagonal splits each side) has surface area 6.
C4_UnitCubeIsSix ==
    (pc # "area_input" /\ pf.verts = CubeVerts /\ pf.faces \in CubeFaceLists) =>
        AreaEq(pf.area, AreaOfNumber(6))

\* The area of a cube mesh has been computed.
C4_Witness ==
    /\ pc = "area_done"
    /\ pf.faces \in CubeFaceLists
    /\ Len(pf.faces) = 12
    /\ Len(pf.verts.pts) = 8

FacesInRange(verts, faces) ==
    \A i \in 1..Len(faces) : \A j \in 1..3 :
        0 <= faces[i][j] /\ faces[i][j] < Len(verts.pts)

\* C5: wherever a mesh is consumed (the two area computations, the plots of
\* verts, the polygon renderer's verts_px[faces_px]), every index of every
\* face is a valid index into that mesh's vertices.
C5_FaceIndicesInRange ==
    /\ env.verts_px # 0 =>
          /\ FacesInRange(AreaPxArgs[1], AreaPxArgs[2])
          /\ FacesInRange(PolyArgs[1], PolyArgs[2])
    /\ env.verts # 0 => FacesInRange(Data(heap, env.verts), Data(heap, env.faces))

\* Both meshes exist, with more than one face, as the polygon renderer runs.
C5_Witness ==
    /\ pc = "c_poly"
    /\ env.verts # 0
    /\ Len(Data(heap, env.faces_px)) >= 2

\* C6 as stated: no object changes after it was created.
C6_NothingMutated == [][\A i \in 1..Len(heap) : heap'[i] = heap[i]]_vars

\* C6, amended: objects are only ever added; the labeled volume stays bound
\* to the same array; no object changes after it was created, except the ITK
\* image bound to image when image.SetSpacing runs, of which only the
\* spacing changes, to (1, 1, 5).
C6_OnlySetSpacingMutates ==
    [][/\ Len(heap') >= Len(heap)
       /\ env.relabeled # 0 => env'.relabeled = env.relabeled
       /\ \A i \in 1..Len(heap) :
             \/ heap'[i] = heap[i]
             \/ /\ pc = "c_set_spacing"
                /\ i = env.image
                /\ heap[i].kind = "itk_image"
                /\ heap'[i] = [heap[i] EXCEPT !.spacing = NewSpacing]]_vars

\* The whole notebook has run, SetSpacing included, with both meshes made.
C6_Witness ==
    /\ pc = "done"
    /\ env.verts # 0
    /\ heap[env.image].spacing = NewSpacing
    /\ Len(Relabeled) >= 2

\* C7 as stated: the mask is true exactly at the voxels whose value is
\* selected_cell.
C7_MaskIsSelectedCell ==
    env.volume # 0 =>
        LET v == Relabeled
        IN  Data(heap, env.volume) =
                [r \in 1..Len(v[1]) |-> [c \in 1..Len(v[1][1]) |->
                    [p \in 1..Len(v) |-> v[p][r][c] = val.selected_cell]]]

\* The label that has exactly k smaller non-zero labels in the volume.
LabelAtRank(k) ==
    CHOOSE l \in RegionLabels(Relabeled) :
        Cardinality({x \in RegionLabels(Relabeled) : x < l}) = k

\* C7, amended: selected_cell is a position, not a label.  The mask is true
\* exactly at the voxels whose value is the label with selected_cell smaller
\* non-zero labels in the volume; with no such label (at most selected_cell
\* labels present) the cell raises and no mask is made.
C7_MaskIsLabelAtIndex ==
    /\ env.volume # 0 =>
          LET v == Relabeled
              l == LabelAtRank(val.selected_cell)
          IN  Data(heap, env.volume) =
                  [r \in 1..Len(v[1]) |-> [c \in 1..Len(v[1][1]) |->
                      [p \in 1..Len(v) |-> v[p][r][c] = l]]]
    /\ (val.selected_cell # -1 /\ Cardinality(RegionLabels(Relabeled)) <= val.selected_cell) =>
          pc = "raised" /\ env.volume = 0

\* A mask was made from a volume whose labels are not 1, 2, 3, ...: the
\* selected label is neither selected_cell nor selected_cell + 1.
C7_Witness ==
    /\ env.volume # 0
    /\ LabelAtRank(val.selected_cell) \notin {val.selected_cell, val.selected_cell + 1}
    /\ \E p \in 1..Len(Relabeled) :
          /\ Data(heap, env.volume)[2][2][p]
          /\ ~Data(heap, env.volume)[1][2][p]

\* The maximum over the first k planes, voxel by voxel.
MaxOverPlanes(k) ==
    [r \in 1..Len(Relabeled[1]) |-> [c \in 1..Len(Relabeled[1][1]) |->
        SetMax({Relabeled[p][r][c] : p \in 1..k})]]

\* C8: in the projection loop, after k planes (k = n + 1) IM_MAX is the
\* maximum over planes 0..k-1 (plane 0 before the first iteration); the loop
\* ends after exactly depth iterations, and from then on IM_MAX is the
\* maximum over all planes.
C8_RunningMaximum ==
    /\ pc = "maxproj_loop" => Data(heap, env.IM_MAX) = MaxOverPlanes(Max(1, val.n + 1))
    /\ (env.IM_MAX # 0 /\ pc # "maxproj_loop") =>
          /\ val.n + 1 = Len(Relabeled)
          /\ Data(heap, env.IM_MAX) = MaxOverPlanes(Len(Relabeled))

\* The loop has ended on a volume of several planes whose projection is
\* neither its first nor its last plane.
C8_Witness ==
    /\ pc = "c_mesh_px"
    /\ Len(Relabeled) >= 2
    /\ Data(heap, env.IM_MAX) # Relabeled[1]
    /\ Data(heap, env.IM_MAX) # Relabeled[Len(Relabeled)]

\* The axes of relabeled (relabeled[z,:,:] is a plane), of the transposed
\* mask handed to the extraction, and of original_spacing (0.29 is the
\* distance between planes; the factors [1, 4, 4] rescale rows and columns).
VolumeAxes == <<"pln", "row", "col">>
TransposeAxes == <<1, 2, 0>>
MeshAxes == [i \in 1..3 |-> VolumeAxes[TransposeAxes[i] + 1]]
SpacingAxes == <<"pln", "row", "col">>

\* The normalized spacing of a physical axis.
PhysicalSpacing(axis) ==
    Data(heap, env.spacing)[CHOOSE j \in 1..3 : SpacingAxes[j] = axis]

\* C9: coordinate a of every vertex of the spacing-aware mesh is the pixel
\* coordinate times the normalized spacing of the physical axis that mesh
\* axis a holds (row, col, pln).
C9_SpacingOnMatchingAxis ==
    env.verts # 0 =>
        LET v == Data(heap, env.verts)
            w == Data(heap, env.verts_px)
        IN  \A i \in 1..Len(v.pts), a \in 1..3 :
               v.pts[i][a] * w.den * PhysicalSpacing(MeshAxes[a])[2]
                   = w.pts[i][a] * PhysicalSpacing(MeshAxes[a])[1] * v.den

\* C10: whatever value the slider holds, slicer read a plane that exists.
C10_SliderWithinDepth ==
    z # -1 => (z < Len(Relabeled) /\ shown.call = "imshow")

====
